---- MODULE Spec2Model ----
(***************************************************************************)
(* HttpPlugin (src/census/plugins/http.ts): the http instrumentation       *)
(* plugin.  The model holds the plugin configuration, the intercepted      *)
(* operations, the spans the tracer handed out together with the log of    *)
(* the calls the plugin made on each of them, and one invocation record    *)
(* for the plugin's pure functions (isIgnored, convertTraceStatus).        *)
(***************************************************************************)
EXTENDS Integers, Sequences, FiniteSets, TLC

VARIABLES
  config,     \* plugin.options and the tracer's propagation (set by enable)
  ops,        \* the intercepted operations, in interception order
  spans,      \* the spans the tracer handed out, each with the log of the
              \* calls made on it
  pureIn,     \* arguments of the last invocation of a pure function
  pureOut     \* its result ([pending |-> TRUE] before the call returns)

vars == <<config, ops, spans, pureIn, pureOut>>
engineVars == <<config, ops, spans>>

-----------------------------------------------------------------------------
(* Bounds of the model.                                                    *)

\* status codes are drawn from -MaxNegCode .. MaxStatusCode
MaxStatusCode == 600
MaxNegCode == 2
\* ignore lists have at most MaxRules entries
MaxRules == 3

-----------------------------------------------------------------------------
(* TraceStatusCodes (http.ts 506-517).                                     *)

UNKNOWN == 2
OK == 0
INVALID_ARGUMENT == 3
DEADLINE_EXCEEDED == 4
NOT_FOUND == 5
PERMISSION_DENIED == 7
UNAUTHENTICATED == 16
RESOURCE_EXHAUSTED == 8
UNIMPLEMENTED == 12
UNAVAILABLE == 14

\* A mutant of convertTraceStatus: the upper range check is off by one, so
\* 504 falls out of the table.
convertTraceStatus_offByOne(statusCode) ==
  IF statusCode < 200 \/ statusCode >= 504 THEN UNKNOWN
  ELSE IF statusCode >= 200 /\ statusCode < 400 THEN OK
  ELSE CASE statusCode = 400 -> INVALID_ARGUMENT
         [] statusCode = 504 -> DEADLINE_EXCEEDED
         [] statusCode = 404 -> NOT_FOUND
         [] statusCode = 403 -> PERMISSION_DENIED
         [] statusCode = 401 -> UNAUTHENTICATED
         [] statusCode = 429 -> RESOURCE_EXHAUSTED
         [] statusCode = 501 -> UNIMPLEMENTED
         [] statusCode = 503 -> UNAVAILABLE
         [] OTHER -> UNKNOWN

\* static convertTraceStatus (statusCode: number): number
convertTraceStatus(statusCode) ==
  IF statusCode < 200 \/ statusCode > 504 THEN UNKNOWN
  ELSE IF statusCode >= 200 /\ statusCode < 400 THEN OK
  ELSE CASE statusCode = 400 -> INVALID_ARGUMENT
         [] statusCode = 504 -> DEADLINE_EXCEEDED
         [] statusCode = 404 -> NOT_FOUND
         [] statusCode = 403 -> PERMISSION_DENIED
         [] statusCode = 401 -> UNAUTHENTICATED
         [] statusCode = 429 -> RESOURCE_EXHAUSTED
         [] statusCode = 501 -> UNIMPLEMENTED
         [] statusCode = 503 -> UNAVAILABLE
         [] OTHER -> UNKNOWN

-----------------------------------------------------------------------------
(* The Pattern Matcher (http.ts 134-167).                                  *)
(* An ignore rule is a record: kind "string" compares value with the url,  *)
(* kind "regex" holds the set of urls its test() accepts, kind "function"  *)
(* holds the set of <<url, request>> pairs on which the predicate returns  *)
(* true, any other kind (a number, null, an object) is unrecognized.       *)

StringPattern(s) == [kind |-> "string", value |-> s, lang |-> {}, graph |-> {}]
RegExpPattern(l) == [kind |-> "regex", value |-> "", lang |-> l, graph |-> {}]
FunctionPattern(g) == [kind |-> "function", value |-> "", lang |-> {}, graph |-> g]
OtherPattern == [kind |-> "number", value |-> "", lang |-> {}, graph |-> {}]

\* the result of a call: a returned boolean, or a thrown error
Return(b) == [threw |-> FALSE, value |-> b]
Throw == [threw |-> TRUE, value |-> FALSE]

\* A mutant of isSatisfyPattern: an unrecognized pattern is skipped silently.
isSatisfyPattern_skipUnknown(url, request, pattern) ==
  IF pattern.kind = "string" THEN Return(pattern.value = url)
  ELSE IF pattern.kind = "regex" THEN Return(url \in pattern.lang)
  ELSE IF pattern.kind = "function" THEN Return(<<url, request>> \in pattern.graph)
  ELSE Return(FALSE)

\* protected isSatisfyPattern<T> (url, request, pattern): boolean
isSatisfyPattern(url, request, pattern) ==
  IF pattern.kind = "string" THEN Return(pattern.value = url)
  ELSE IF pattern.kind = "regex" THEN Return(url \in pattern.lang)
  ELSE IF pattern.kind = "function" THEN Return(<<url, request>> \in pattern.graph)
  ELSE Throw

\* A mutant of isIgnoredLoop: only the first rule of the list is consulted.
isIgnoredLoop_firstOnly(url, request, rules, i) ==
  IF i > Len(rules) THEN [threw |-> FALSE, value |-> FALSE, evaluated |-> i - 1]
  ELSE LET r == isSatisfyPattern(url, request, rules[i])
       IN [threw |-> r.threw, value |-> r.value, evaluated |-> i]

\* the for loop of isIgnored, from rule i on; evaluated counts the rules on
\* which isSatisfyPattern was called
RECURSIVE isIgnoredLoop(_, _, _, _)
isIgnoredLoop(url, request, rules, i) ==
  IF i > Len(rules) THEN [threw |-> FALSE, value |-> FALSE, evaluated |-> i - 1]
  ELSE LET r == isSatisfyPattern(url, request, rules[i])
       IN IF r.threw THEN [threw |-> TRUE, value |-> FALSE, evaluated |-> i]
          ELSE IF r.value THEN [threw |-> FALSE, value |-> TRUE, evaluated |-> i]
          ELSE isIgnoredLoop(url, request, rules, i + 1)

\* A mutant of isIgnored: nothing is ever ignored.
isIgnored_never(url, request, list) ==
  [threw |-> FALSE, value |-> FALSE, evaluated |-> 0]

\* A mutant of isIgnored: the loop does not stop at the first match, the
\* last rule decides.
RECURSIVE lastRuleLoop(_, _, _, _, _)
lastRuleLoop(url, request, rules, i, acc) ==
  IF i > Len(rules) THEN [threw |-> FALSE, value |-> acc, evaluated |-> i - 1]
  ELSE LET r == isSatisfyPattern(url, request, rules[i])
       IN IF r.threw THEN [threw |-> TRUE, value |-> FALSE, evaluated |-> i]
          ELSE lastRuleLoop(url, request, rules, i + 1, r.value)

isIgnored_noShortCircuit(url, request, list) ==
  IF ~list.defined THEN [threw |-> FALSE, value |-> FALSE, evaluated |-> 0]
  ELSE lastRuleLoop(url, request, list.rules, 1, FALSE)

\* protected isIgnored<T> (url, request, list): boolean
\* list is [defined |-> FALSE] for an absent list (!list)
isIgnored(url, request, list) ==
  IF ~list.defined THEN [threw |-> FALSE, value |-> FALSE, evaluated |-> 0]
  ELSE isIgnoredLoop(url, request, list.rules, 1)

-----------------------------------------------------------------------------
(* Invocations of the pure functions on inputs drawn from bounded sets.    *)

Urls == {"/ignored/string", "/ignored/strings", "/ignored/regexp"}
Requests == {"req1", "req2"}

PatternChoices ==
  { StringPattern("/ignored/string"),
    RegExpPattern({"/ignored/regexp"}),
    RegExpPattern({"/ignored/string", "/ignored/strings"}),
    FunctionPattern({<<"/ignored/strings", "req1">>}),
    FunctionPattern({}),
    OtherPattern }

RuleLists == UNION { [1..n -> PatternChoices] : n \in 0..MaxRules }

IgnoreLists ==
  { [defined |-> FALSE, rules |-> <<>>] } \cup
  { [defined |-> TRUE, rules |-> rs] : rs \in RuleLists }

Pending == [pending |-> TRUE]

\* the plugin is not enabled while a pure function is exercised alone
EngineIdle ==
  /\ config = [enabled |-> FALSE]
  /\ ops = <<>>
  /\ spans = <<>>

InitClassify ==
  /\ EngineIdle
  /\ pureIn \in { [fn |-> "convertTraceStatus", statusCode |-> c] :
                    c \in (0 - MaxNegCode)..MaxStatusCode }
  /\ pureOut = Pending

CallConvertTraceStatus ==
  /\ pureIn.fn = "convertTraceStatus"
  /\ pureOut = Pending
  /\ pureOut' = [pending |-> FALSE, code |-> convertTraceStatus(pureIn.statusCode)]
  /\ UNCHANGED <<pureIn, engineVars>>

SpecClassify == InitClassify /\ [][CallConvertTraceStatus]_vars

InitMatcher ==
  /\ EngineIdle
  /\ pureIn \in { [fn |-> "isIgnored", url |-> u, request |-> r, list |-> l] :
                    u \in Urls, r \in Requests, l \in IgnoreLists }
  /\ pureOut = Pending

CallIsIgnored ==
  /\ pureIn.fn = "isIgnored"
  /\ pureOut = Pending
  /\ pureOut' = [pending |-> FALSE,
                 res |-> isIgnored(pureIn.url, pureIn.request, pureIn.list)]
  /\ UNCHANGED <<pureIn, engineVars>>

SpecMatcher == InitMatcher /\ [][CallIsIgnored]_vars

-----------------------------------------------------------------------------
(* The engine: bounds and inputs.                                          *)

\* at most MaxOps operations are intercepted
MaxOps == 2
\* at most MaxEvents terminal events (outbound) and response.end calls
\* (inbound) happen in all
MaxEvents == 2
\* the application starts at most MaxAppRoots root spans of its own
MaxAppRoots == 1

\* header values are strings; an absent header is outside the map's domain
NoHeaders == [n \in {} |-> ""]
Header(name, value) == [n \in {name} |-> value]
\* headers[name] is truthy: present and not the empty string
Truthy(headers, name) == name \in DOMAIN headers /\ headers[name] # ""
\* a || b on header values, "" standing for undefined
HeaderOr(headers, a, b) ==
  IF Truthy(headers, a) THEN headers[a]
  ELSE IF b \in DOMAIN headers THEN headers[b] ELSE ""

\* a path is its pathname and its search part; url.parse(path).pathname
\* drops the search part, `${path}` keeps both
Path(pathname, search) == [pathname |-> pathname, search |-> search]
PathStr(p) == p.pathname \o p.search

\* the options of http.request: undefined (falsy), a url string, or an object
FalsyOptions ==
  [form |-> "falsy", protocol |-> "", host |-> "", path |-> Path("", ""),
   method |-> "", hasHeaders |-> FALSE, headers |-> NoHeaders]
StringOptions(protocol, host, path) ==
  [form |-> "string", protocol |-> protocol, host |-> host, path |-> path,
   method |-> "", hasHeaders |-> FALSE, headers |-> NoHeaders]
ObjectOptions(host, path, method, hasHeaders, headers) ==
  [form |-> "object", protocol |-> "", host |-> host, path |-> path,
   method |-> method, hasHeaders |-> hasHeaders, headers |-> headers]

hostName == "fake.service.io"
urlHost == "http://" \o hostName

OutgoingOptions ==
  { FalsyOptions,
    StringOptions("http:", hostName, Path("/outgoing/rootSpan/1", "")),
    ObjectOptions(hostName, Path("/outgoing/rootSpan/1", "?q=1"), "POST", TRUE,
                  Header("User-Agent", "Android")),
    ObjectOptions(hostName, Path("/outgoing/do-not-trace", ""), "", TRUE,
                  Header("x-opencensus-outgoing-request", "1")),
    ObjectOptions(hostName, Path("/outgoing/do-not-trace", ""), "", TRUE,
                  Header("x-opencensus-outgoing-request", "")),
    ObjectOptions(hostName, Path("/ignored/string", ""), "", FALSE, NoHeaders),
    ObjectOptions(hostName, Path("/outgoing/rootSpan/1", ""), "", TRUE,
                  Header("Expect", "100-continue")) }

\* the ignore lists of the test suites (http.spec.ts 118-126), or none
ignoreIncomingPaths ==
  [defined |-> TRUE,
   rules |-> << StringPattern("/ignored/string"),
                RegExpPattern({"/ignored/regexp", "/ignored/regexp/1"}),
                FunctionPattern({<<"/ignored/function", "request">>}) >>]
ignoreOutgoingUrls ==
  [defined |-> TRUE,
   rules |-> << StringPattern(urlHost \o "/ignored/string"),
                RegExpPattern({urlHost \o "/ignored/regexp"}),
                FunctionPattern({<<urlHost \o "/ignored/function", "request">>}) >>]
NoList == [defined |-> FALSE, rules |-> <<>>]

\* the functions applyPatch wraps with shimmer (this.version satisfies
\* '>=8.0.0', so get is among them)
Wrappable == {"request", "get", "emit"}

\* extractThrows, injectThrows: the configured propagation's extract / inject
\* fails with an exception; wrapped: the functions that are currently wrapped
Configs ==
  { [enabled |-> TRUE, wrapped |-> Wrappable,
     ignoreIncomingPaths |-> l[1], ignoreOutgoingUrls |-> l[2],
     createSpanWithNet |-> n, propagation |-> p,
     extractThrows |-> FALSE, injectThrows |-> FALSE] :
      l \in {<<ignoreIncomingPaths, ignoreOutgoingUrls>>},
      n \in BOOLEAN, p \in BOOLEAN }

\* the tests' configuration with a propagation that may fail
FaultyConfigs ==
  { [enabled |-> TRUE, wrapped |-> Wrappable,
     ignoreIncomingPaths |-> ignoreIncomingPaths,
     ignoreOutgoingUrls |-> ignoreOutgoingUrls,
     createSpanWithNet |-> FALSE, propagation |-> TRUE,
     extractThrows |-> e, injectThrows |-> i] : e \in BOOLEAN, i \in BOOLEAN }

StatusCodes == {200, 404}
Errors == {[name |-> "Error", message |-> "socket hang up"]}

-----------------------------------------------------------------------------
(* Spans.  A span is what the tracer handed to the plugin, with the log of *)
(* the calls the plugin (or the span's owner) made on it.                  *)

Call(call, key, str, num) == [call |-> call, key |-> key, str |-> str, num |-> num]
addAttribute(key, value) == Call("addAttribute", key, value, 0)
setStatus(code) == Call("setStatus", "", "", code)
addMessageEvent(type) == Call("addMessageEvent", type, "", 0)
end == Call("end", "", "", 0)

CallsOf(s, call) == { i \in 1..Len(s.calls) : s.calls[i].call = call }
EndCalls(s) == Cardinality(CallsOf(s, "end"))
Writes(s, key) ==
  { i \in 1..Len(s.calls) : s.calls[i].call = "addAttribute" /\ s.calls[i].key = key }
HasAttribute(s, key) == Writes(s, key) # {}
\* span.attributes[key]: the last value written
Attribute(s, key) ==
  s.calls[CHOOSE i \in Writes(s, key) : \A j \in Writes(s, key) : j <= i].str
HasStatus(s) == CallsOf(s, "setStatus") # {}
\* span.status.code: the last status set
Status(s) ==
  s.calls[CHOOSE i \in CallsOf(s, "setStatus") :
            \A j \in CallsOf(s, "setStatus") : j <= i].num

SpanIds == 1..Len(spans)
\* the root spans that can be the current root span of a calling context:
\* a root stops being current when it is ended
CurrentRoots == { r \in SpanIds : spans[r].root /\ EndCalls(spans[r]) = 0 }

-----------------------------------------------------------------------------
(* The tracer, as the plugin uses it (spec section 6).                     *)

FreshTraceId(ss) == "trace-" \o ToString(Len(ss) + 1)

\* tracer.startRootSpan(options, fn): when the trace is sampled, fn receives a
\* new root span whose trace identity is options.spanContext's when given
\* ("" stands for no context), and a fresh one otherwise; when it is not
\* sampled fn receives no span.  The result is <<spans, span id or 0>>.
startRootSpan(ss, op, kind, name, traceId, sampled) ==
  IF sampled
  THEN << Append(ss, [op |-> op, root |-> TRUE, parent |-> 0,
                      traceId |-> IF traceId = "" THEN FreshTraceId(ss) ELSE traceId,
                      kind |-> kind, name |-> name, calls |-> <<>>]),
          Len(ss) + 1 >>
  ELSE << ss, 0 >>

\* tracer.startChildSpan(options): a child of the current root span, appended
\* to its children and sharing its traceId; no span without a current root
startChildSpan(ss, op, kind, name, currentRootSpan) ==
  IF currentRootSpan = 0 THEN << ss, 0 >>
  ELSE << Append(ss, [op |-> op, root |-> FALSE, parent |-> currentRootSpan,
                      traceId |-> ss[currentRootSpan].traceId,
                      kind |-> kind, name |-> name, calls |-> <<>>]),
          Len(ss) + 1 >>

\* the headers propagation.inject sets (DummyPropagation, http.spec.ts 59-62)
InjectedHeaders == << "x-dummy-trace-id", "x-dummy-span-id" >>
\* propagation.extract reads the trace identity from the first of them
extract(headers) ==
  IF Truthy(headers, InjectedHeaders[1]) THEN headers[InjectedHeaders[1]] ELSE ""

-----------------------------------------------------------------------------
(* Operations.                                                             *)

NewOp(dir, event, input) ==
  [dir |-> dir, event |-> event, input |-> input,
   ctx |-> 0,                 \* tracer.currentRootSpan as read at interception
   span |-> 0,                \* the span the tracer handed out, or 0
   originalCalls |-> 0,       \* calls of the original request / emit
   threw |-> FALSE,           \* the patched function threw
   steps |-> << >>,           \* outbound: what was done to the request, in order
   matcherCalls |-> 0,        \* calls of isIgnored
   \* outbound: the ClientRequest and its response
   listening |-> FALSE,       \* 'response' and 'error' listeners registered
   responded |-> FALSE,       \* 'response' emitted: 'end'/'error' listeners
   statusCode |-> 0,
   respEnded |-> FALSE,       \* the response emitted 'end'
   respErrored |-> FALSE,     \* the response emitted 'error'
   reqErrored |-> FALSE,      \* the request emitted 'error'
   events |-> 0,              \* terminal events delivered
   appListens |-> FALSE,      \* the application's own request.on('error')
   appErrors |-> 0,           \* errors its listener received
   unhandled |-> 0,           \* 'error' emitted with no listener: emit throws
   setHeaders |-> {},         \* headers set by request.setHeader
   setHeaderCalls |-> 0,      \* calls of request.setHeader
   cloned |-> FALSE,          \* options.__cloned
   clones |-> 0,              \* Object.assign({}, options) calls
   cloneHeaders |-> {},       \* headers written into the clone
   \* inbound: the ServerResponse
   endWrapped |-> FALSE,      \* response.end is the plugin's wrapper
   realEndCalls |-> 0,        \* calls of the original response.end
   endThrows |-> 0]           \* calls of response.end that threw

\* A mutant of Log: what is done to a span is done to every span of its trace.
Log_siblings(ss, span, calls) ==
  [s \in DOMAIN ss |->
     IF ss[s].traceId = ss[span].traceId /\ ss[s].op # 0
     THEN [ss[s] EXCEPT !.calls = @ \o calls]
     ELSE ss[s]]

\* A mutant of Log: a span that is finalized is reclassified as a root span.
Log_reparents(ss, span, calls) ==
  [ss EXCEPT ![span].calls = @ \o calls, ![span].root = TRUE, ![span].parent = 0]

\* A mutant of Log: what is done to a child span is done to its parent too.
Log_withParent(ss, span, calls) ==
  [s \in DOMAIN ss |->
     IF s = span \/ s = ss[span].parent
     THEN [ss[s] EXCEPT !.calls = @ \o calls]
     ELSE ss[s]]

\* the calls made on span, appended to its log
Log(ss, span, calls) == [ss EXCEPT ![span].calls = @ \o calls]

Digits == << "0", "1", "2", "3", "4", "5", "6", "7", "8", "9" >>
\* `${n}` / n.toString() of an integer
RECURSIVE DecStr(_)
DecStr(n) ==
  IF n < 0 THEN "-" \o DecStr(0 - n)
  ELSE IF n < 10 THEN Digits[n + 1]
  ELSE DecStr(n \div 10) \o Digits[(n % 10) + 1]

\* A mutant of toLowerCase: the string is left as it is.
toLowerCase_identity(s) == s

toLowerCase(s) ==
  CASE s = "GET" -> "get" [] s = "POST" -> "post" [] s = "Expect" -> "expect"
    [] s = "HTTP" -> "http" [] s = "HTTPS" -> "https" [] OTHER -> s

\* new HttpPlugin('http')
moduleName == "http"

-----------------------------------------------------------------------------
(* Outgoing requests (http.ts 273-447).                                    *)

\* options.headers && options.headers['x-opencensus-outgoing-request']
isOwnRequest(options) ==
  options.hasHeaders /\ Truthy(options.headers, "x-opencensus-outgoing-request")

\* hasExpectHeader (options): boolean
hasExpectHeader(options) == options.hasHeaders /\ Truthy(options.headers, "Expect")

\* "If outgoing request headers contain the "Expect" header, the returned
\* ClientRequest will throw an error if any new headers are added": the
\* request matches header names without regard to case
headersFlushed(options) ==
  /\ options.hasHeaders
  /\ \E n \in DOMAIN options.headers :
       toLowerCase(n) = "expect" /\ options.headers[n] # ""

\* setter.setHeader(name, value)
setHeader(op, name) ==
  IF hasExpectHeader(op.input) /\ op.input.hasHeaders
  THEN [op EXCEPT !.clones = IF op.cloned THEN @ ELSE @ + 1,
                  !.cloned = TRUE,
                  !.cloneHeaders = @ \cup {name},
                  !.steps = Append(@, "inject")]
  ELSE IF headersFlushed(op.input)
  THEN [op EXCEPT !.setHeaderCalls = @ + 1, !.threw = TRUE]
  ELSE [op EXCEPT !.setHeaderCalls = @ + 1, !.setHeaders = @ \cup {name},
                  !.steps = Append(@, "inject")]

\* the header names of the request that is sent: those of the caller's
\* options, from which original.apply built the request before the span was
\* started, and those set on the request afterwards; what is written into a
\* clone of the options is handed to nothing
sentHeaders(op) ==
  (IF op.input.hasHeaders THEN DOMAIN op.input.headers ELSE {}) \cup op.setHeaders

\* propagation.inject(setter, span.spanContext)
RECURSIVE inject(_, _, _)
inject(op, names, i) ==
  IF i > Len(names) \/ op.threw THEN op
  ELSE inject(setHeader(op, names[i]), names, i + 1)

\* A mutant of makeRequestTrace: the span is not tested before it is used.
makeRequestTrace_noSpanTest(op, span) ==
  LET injected ==
        IF ~config.propagation THEN op
        ELSE IF config.injectThrows THEN [op EXCEPT !.threw = TRUE]
        ELSE inject(op, InjectedHeaders, 1)
  IN IF injected.threw THEN [injected EXCEPT !.span = span]
     ELSE [injected EXCEPT !.span = span, !.listening = TRUE,
                           !.steps = Append(@, "listen")]

\* the function getMakeRequestTraceFunction returns, applied to span
makeRequestTrace(op, span) ==
  IF span = 0 THEN op
  ELSE LET injected ==
             IF ~config.propagation THEN op
             ELSE IF config.injectThrows THEN [op EXCEPT !.threw = TRUE]
             ELSE inject(op, InjectedHeaders, 1)
       IN IF injected.threw THEN [injected EXCEPT !.span = span]
          ELSE [injected EXCEPT !.span = span, !.listening = TRUE,
                                !.steps = Append(@, "listen")]

\* A mutant of startsRootSpan: every outgoing request starts a root span.
startsRootSpan_always(currentRootSpan) == TRUE

\* !plugin.tracer.currentRootSpan
startsRootSpan(currentRootSpan) == currentRootSpan = 0

\* outgoingRequest (options, callback), called while the tracer's current
\* root span is currentRootSpan; the result is the operation and the spans
outgoingRequest(id, options, currentRootSpan, sampled) ==
  LET op == NewOp("out", "", options)
      original == [op EXCEPT !.originalCalls = 1, !.steps = Append(@, "original")]
  IN
  IF options.form = "falsy" THEN [op |-> original, spans |-> spans]
  ELSE IF options.form = "object" /\ isOwnRequest(options)
  THEN [op |-> original, spans |-> spans]
  ELSE
    LET pathname ==
          IF options.form = "string"
          THEN (IF options.path.pathname = "" THEN "/" ELSE options.path.pathname)
          ELSE options.path.pathname
        method ==
          IF options.form = "string" \/ options.method = "" THEN "GET"
          ELSE options.method
        origin ==
          (IF options.protocol = "" THEN "http:" ELSE options.protocol) \o "//"
            \o (IF options.host = "" THEN "undefined" ELSE options.host)
        ignored == isIgnored(origin \o pathname, "request", config.ignoreOutgoingUrls)
        matched == [original EXCEPT !.matcherCalls = 1]
        kind == IF moduleName = "https" THEN "HTTPS" ELSE "HTTP"
        name == toLowerCase(kind) \o "-" \o toLowerCase(method)
    IN
    IF ignored.threw THEN [op |-> [matched EXCEPT !.threw = TRUE], spans |-> spans]
    ELSE IF ignored.value THEN [op |-> matched, spans |-> spans]
    ELSE
      LET started ==
            IF startsRootSpan(currentRootSpan)
            THEN startRootSpan(spans, id, "CLIENT", name, "", sampled)
            ELSE startChildSpan(spans, id, "CLIENT", name, currentRootSpan)
          created == [matched EXCEPT !.ctx = currentRootSpan,
                                     !.steps = IF started[2] = 0 THEN @
                                               ELSE Append(@, "startSpan")]
      IN [op |-> makeRequestTrace(created, started[2]), spans |-> started[1]]

\* A mutant of userAgentOf: only the capitalized header name is read.
userAgentOf_capitalizedOnly(headers) == HeaderOr(headers, "User-Agent", "User-Agent")

\* the headers and the host the listeners read from options (the parsed url
\* when options was a string, the clone when it was cloned)
userAgentOf(headers) == HeaderOr(headers, "user-agent", "User-Agent")

\* A mutant of onResponseEnd: the raw http status is set as the span status.
onResponseEnd_rawStatus(op) ==
  LET options == op.input
      userAgent == IF options.hasHeaders THEN userAgentOf(options.headers) ELSE ""
      path == IF PathStr(options.path) = "" THEN "undefined" ELSE PathStr(options.path)
  IN (IF options.host # "" THEN << addAttribute("http.host", options.host) >> ELSE << >>)
     \o << addAttribute("http.method", "GET"),
           addAttribute("http.path", path),
           addAttribute("http.route", path) >>
     \o (IF userAgent # "" THEN << addAttribute("http.user_agent", userAgent) >> ELSE << >>)
     \o << addAttribute("http.status_code", DecStr(op.statusCode)),
           setStatus(op.statusCode),
           addMessageEvent("SENT"),
           end >>

\* response.on('end', ...): the calls made on the span
onResponseEnd(op) ==
  LET options == op.input
      userAgent == IF options.hasHeaders THEN userAgentOf(options.headers) ELSE ""
      path == IF PathStr(options.path) = "" THEN "undefined" ELSE PathStr(options.path)
  IN (IF options.host # "" THEN << addAttribute("http.host", options.host) >> ELSE << >>)
     \o << addAttribute("http.method", "GET"),
           addAttribute("http.path", path),
           addAttribute("http.route", path) >>
     \o (IF userAgent # "" THEN << addAttribute("http.user_agent", userAgent) >> ELSE << >>)
     \o << addAttribute("http.status_code", DecStr(op.statusCode)),
           setStatus(convertTraceStatus(op.statusCode)),
           addMessageEvent("SENT"),
           end >>

\* A mutant of onError: the error is recorded with the status OK.
onError_statusOK(error) ==
  << addAttribute("http.error_name", error.name),
     addAttribute("http.error_message", error.message),
     setStatus(OK),
     end >>

\* A mutant of onError: the error path adds a message event too.
onError_withEvent(error) ==
  << addAttribute("http.error_name", error.name),
     addAttribute("http.error_message", error.message),
     setStatus(UNKNOWN),
     addMessageEvent("SENT"),
     end >>

\* response.on('error', ...) and request.on('error', ...): the same calls
\* (CanonicalCode.UNKNOWN has the value of TraceStatusCodes.UNKNOWN)
onError(error) ==
  << addAttribute("http.error_name", error.name),
     addAttribute("http.error_message", error.message),
     setStatus(UNKNOWN),
     end >>

-----------------------------------------------------------------------------
(* Incoming requests (http.ts 172-267, 449-457).                           *)

\* an IncomingMessage: url, method ("" when it has none), headers, and the
\* list of matched path segments a routing layer may have attached
Segment(text, lead) == [text |-> text, lead |-> lead]
Request(url, method, headers, hasStack, stack) ==
  [url |-> url, method |-> method, headers |-> headers,
   hasStack |-> hasStack, stack |-> stack]

IncomingRequests ==
  { Request(Path("/incoming/rootSpan/", ""), "GET",
            ("host" :> "localhost:3000") @@ ("user-agent" :> "Android"),
            FALSE, << >>),
    Request(Path("/ignored/string", ""), "GET", Header("host", "localhost"),
            FALSE, << >>),
    Request(Path("/ignored/strings", "?a=1"), "",
            ("x-opencensus-outgoing-request" :> "1")
              @@ ("x-dummy-trace-id" :> "dummy-trace-id"),
            TRUE, << Segment("/", TRUE), Segment("api", FALSE), Segment("/users", TRUE) >>) }

\* the events the server emits, with their first argument
IncomingEvents ==
  { <<"request", r>> : r \in IncomingRequests } \cup
  { <<"connection", Request(Path("", ""), "", NoHeaders, FALSE, << >>)>> }

\* host.replace(/^(.*)(\:[0-9]{1,5})/, '$1') on the host values of the model
stripPort(host) == IF host = "localhost:3000" THEN "localhost" ELSE host

\* A mutant of joinStack: the segments equal to '/' are not filtered out.
RECURSIVE joinStack_keepsRoot(_, _)
joinStack_keepsRoot(stack, i) ==
  IF i > Len(stack) THEN ""
  ELSE (IF stack[i].lead THEN stack[i].text ELSE "/" \o stack[i].text)
         \o joinStack_keepsRoot(stack, i + 1)

\* middlewareStack.filter(path => path !== '/')
\*   .map(path => path[0] === '/' ? path : '/' + path).join('')
RECURSIVE joinStack(_, _)
joinStack(stack, i) ==
  IF i > Len(stack) THEN ""
  ELSE (IF stack[i].text = "/" THEN ""
        ELSE IF stack[i].lead THEN stack[i].text
        ELSE "/" \o stack[i].text) \o joinStack(stack, i + 1)

\* A mutant of forceChildspan: the flag is not read.
forceChildspan_off == FALSE

\* this.options.createSpanWithNet === true
forceChildspan == config.createSpanWithNet = TRUE

\* A mutant of createSpan: options.spanContext is not handed to the tracer.
createSpan_dropsContext(ss, id, kind, name, traceId, currentRootSpan, sampled) ==
  IF forceChildspan
  THEN startChildSpan(ss, id, kind, name, currentRootSpan)
  ELSE startRootSpan(ss, id, kind, name, "", sampled)

\* private createSpan<T> (options, fn)
createSpan(ss, id, kind, name, traceId, currentRootSpan, sampled) ==
  IF forceChildspan
  THEN startChildSpan(ss, id, kind, name, currentRootSpan)
  ELSE startRootSpan(ss, id, kind, name, traceId, sampled)

\* A mutant of tracesEvent: every event is handled as a request.
tracesEvent_any(event) == TRUE

\* "Only traces request events": event !== 'request' forwards to the original
tracesEvent(event) == event = "request"

\* incomingRequest (event, ...args), the patched Server.prototype.emit
incomingRequest(id, event, request, currentRootSpan, sampled) ==
  LET op == NewOp("in", event, request)
      original == [op EXCEPT !.originalCalls = 1]
  IN
  IF ~tracesEvent(event) THEN [op |-> original, spans |-> spans]
  ELSE
    LET path == request.url.pathname
        ignored == isIgnored(path, "request", config.ignoreIncomingPaths)
    IN
    IF ignored.threw
    THEN [op |-> [op EXCEPT !.matcherCalls = 1, !.threw = TRUE], spans |-> spans]
    ELSE IF ignored.value
    THEN [op |-> [original EXCEPT !.matcherCalls = 1], spans |-> spans]
    ELSE IF config.propagation /\ config.extractThrows
    THEN [op |-> [op EXCEPT !.matcherCalls = 1, !.threw = TRUE], spans |-> spans]
    ELSE
      LET context == IF config.propagation THEN extract(request.headers) ELSE ""
          started == createSpan(spans, id, "SERVER", path, context,
                                currentRootSpan, sampled)
          rootSpan == started[2]
      IN [op |-> [original EXCEPT !.matcherCalls = 1,
                                  !.ctx = IF forceChildspan THEN currentRootSpan ELSE 0,
                                  !.span = rootSpan,
                                  !.endWrapped = (rootSpan # 0)],
          spans |-> started[1]]

\* the wrapper installed as response.end, after the original end returned:
\* the calls made on rootSpan
onWrappedEnd(op, statusCode) ==
  LET request == op.input
      headers == request.headers
      host == IF Truthy(headers, "host") THEN headers["host"] ELSE "localhost"
      userAgent == userAgentOf(headers)
      route == IF request.hasStack THEN joinStack(request.stack, 1)
               ELSE PathStr(request.url)
  IN << addAttribute("http.host", stripPort(host)),
        addAttribute("http.method", IF request.method = "" THEN "GET" ELSE request.method),
        addAttribute("http.path", request.url.pathname),
        addAttribute("http.route", route),
        addAttribute("http.user_agent", userAgent),
        addAttribute("http.status_code", DecStr(statusCode)),
        setStatus(convertTraceStatus(statusCode)),
        addMessageEvent("RECEIVED"),
        end >>

\* A mutant of restoresEnd: the wrapper stays installed.
restoresEnd_never == FALSE

\* response.end = originalEnd, the wrapper's first statement
restoresEnd == TRUE

\* the application calls response.end(...) while response.statusCode is
\* statusCode; realThrows: the original end throws
responseEnd(op, statusCode, realThrows) ==
  LET called == [op EXCEPT !.realEndCalls = @ + 1,
                           !.endThrows = IF realThrows THEN @ + 1 ELSE @]
  IN IF op.endWrapped
     THEN [op |-> [called EXCEPT !.endWrapped = ~restoresEnd,
                                 !.statusCode = IF realThrows THEN @ ELSE statusCode],
           calls |-> IF realThrows THEN << >> ELSE onWrappedEnd(op, statusCode)]
     ELSE [op |-> called, calls |-> << >>]

-----------------------------------------------------------------------------
(* The state machine.                                                      *)

Idle == /\ pureIn = [fn |-> "none"]
        /\ pureOut = Pending

Init ==
  /\ config \in Configs
  /\ ops = << >>
  /\ spans = << >>
  /\ Idle

OpIds == 1..Len(ops)

RECURSIVE SumEvents(_)
SumEvents(i) == IF i = 0 THEN 0 ELSE ops[i].events + ops[i].realEndCalls + SumEvents(i - 1)
\* the terminal events delivered and the response.end calls made so far
Delivered == SumEvents(Len(ops))

\* the application calls http.request / http.get with options of optionSet
\* sampledSet: the sampling decisions the tracer may take
OutgoingRequestOf(optionSet, sampledSet) ==
  /\ Len(ops) < MaxOps
  /\ \E options \in optionSet, ctx \in {0} \cup CurrentRoots, sampled \in sampledSet :
       LET r == outgoingRequest(Len(ops) + 1, options, ctx, sampled)
       IN /\ ops' = Append(ops, r.op)
          /\ spans' = r.spans
  /\ UNCHANGED <<config, pureIn, pureOut>>

\* A mutant of EmitResponse: receiving the response ends the span.
EmitResponse_ends ==
  /\ \E o \in OpIds :
       /\ ops[o].dir = "out" /\ ops[o].listening /\ ~ops[o].responded
       /\ ops' = [ops EXCEPT ![o].responded = TRUE]
       /\ spans' = Log(spans, ops[o].span, << end >>)
  /\ UNCHANGED <<config, pureIn, pureOut>>

\* the request emits 'response'
EmitResponse ==
  /\ \E o \in OpIds :
       /\ ops[o].dir = "out" /\ ops[o].listening /\ ~ops[o].responded
       /\ ops' = [ops EXCEPT ![o].responded = TRUE]
  /\ UNCHANGED <<config, spans, pureIn, pureOut>>

\* the response, whose statusCode is code, emits 'end' (a stream emits it
\* once)
EmitResponseEnd ==
  /\ \E o \in OpIds, code \in StatusCodes :
       /\ ops[o].dir = "out" /\ ops[o].responded /\ ~ops[o].respEnded
       /\ Delivered < MaxEvents
       /\ ops' = [ops EXCEPT ![o].respEnded = TRUE, ![o].events = @ + 1,
                             ![o].statusCode = code]
       /\ spans' = Log(spans, ops[o].span, onResponseEnd(ops'[o]))
  /\ UNCHANGED <<config, pureIn, pureOut>>

\* the response emits 'error' (a stream emits it once)
EmitResponseError ==
  /\ \E o \in OpIds, error \in Errors :
       /\ ops[o].dir = "out" /\ ops[o].responded /\ ~ops[o].respErrored
       /\ Delivered < MaxEvents
       /\ ops' = [ops EXCEPT ![o].respErrored = TRUE, ![o].events = @ + 1]
       /\ spans' = Log(spans, ops[o].span, onError(error))
  /\ UNCHANGED <<config, pureIn, pureOut>>

\* the listeners of the request's 'error' event: the one makeRequestTrace
\* registered and the application's own
errorListeners(op) ==
  (IF op.listening THEN {"plugin"} ELSE {}) \cup
  (IF op.appListens THEN {"application"} ELSE {})

\* the application registers its own listener: request.on('error', ...)
AppListen ==
  /\ \E o \in OpIds :
       /\ ops[o].dir = "out" /\ ops[o].originalCalls = 1 /\ ~ops[o].threw
       /\ ~ops[o].appListens /\ ~ops[o].reqErrored
       /\ ops' = [ops EXCEPT ![o].appListens = TRUE]
  /\ UNCHANGED <<config, spans, pureIn, pureOut>>

\* the request emits 'error' (a stream emits it once): every listener is
\* called with the error; without any listener emit throws it
EmitRequestError ==
  /\ \E o \in OpIds, error \in Errors :
       /\ ops[o].dir = "out" /\ ops[o].listening /\ ~ops[o].reqErrored
       /\ Delivered < MaxEvents
       /\ ops' = [ops EXCEPT
                    ![o].reqErrored = TRUE,
                    ![o].events = @ + 1,
                    ![o].appErrors =
                      IF "application" \in errorListeners(ops[o]) THEN @ + 1 ELSE @,
                    ![o].unhandled =
                      IF errorListeners(ops[o]) = {} THEN @ + 1 ELSE @]
       /\ spans' = Log(spans, ops[o].span, onError(error))
  /\ UNCHANGED <<config, pureIn, pureOut>>

\* the server emits an event of eventSet
IncomingRequestOf(eventSet, sampledSet) ==
  /\ Len(ops) < MaxOps
  /\ \E e \in eventSet, ctx \in {0} \cup CurrentRoots, sampled \in sampledSet :
       LET r == incomingRequest(Len(ops) + 1, e[1], e[2], ctx, sampled)
       IN /\ ops' = Append(ops, r.op)
          /\ spans' = r.spans
  /\ UNCHANGED <<config, pureIn, pureOut>>

\* the application calls response.end on the response of a traced request
ResponseEnd ==
  /\ \E o \in OpIds, code \in StatusCodes, realThrows \in BOOLEAN :
       /\ ops[o].dir = "in" /\ ops[o].span # 0
       /\ Delivered < MaxEvents
       /\ LET r == responseEnd(ops[o], code, realThrows)
          IN /\ ops' = [ops EXCEPT ![o] = r.op]
             /\ spans' = Log(spans, ops[o].span, r.calls)
  /\ UNCHANGED <<config, pureIn, pureOut>>

AppRoots == { r \in SpanIds : spans[r].op = 0 }

\* the application starts a root span of its own
\* (tracer.startRootSpan({ name: 'TestRootSpan' }, ...), http.spec.ts 197-198)
AppStartRootSpan ==
  /\ Cardinality(AppRoots) < MaxAppRoots
  /\ spans' = startRootSpan(spans, 0, "", "TestRootSpan", "", TRUE)[1]
  /\ UNCHANGED <<config, ops, pureIn, pureOut>>

\* the owner of a root span ends it (root.end(), http.spec.ts 250)
AppEndRootSpan ==
  /\ \E r \in AppRoots :
       /\ EndCalls(spans[r]) = 0
       /\ spans' = Log(spans, r, << end >>)
  /\ UNCHANGED <<config, ops, pureIn, pureOut>>

OutgoingRequest == OutgoingRequestOf(OutgoingOptions, BOOLEAN)
IncomingRequest == IncomingRequestOf(IncomingEvents, BOOLEAN)

Next ==
  \/ OutgoingRequest
  \/ AppListen
  \/ EmitResponse
  \/ EmitResponseEnd
  \/ EmitResponseError
  \/ EmitRequestError
  \/ IncomingRequest
  \/ ResponseEnd
  \/ AppStartRootSpan
  \/ AppEndRootSpan

\* the whole machine
Spec == Init /\ [][Next]_vars

\* Interception alone: every kind of input, no terminal event.
NextIntercept ==
  \/ OutgoingRequest
  \/ IncomingRequest
  \/ AppStartRootSpan

SpecIntercept == Init /\ [][NextIntercept]_vars

\* The life of the spans, outbound: the requests that are traced, inside and
\* outside a root span of the application, and every terminal event of their
\* carriers.
TracedOptions == { o \in OutgoingOptions : o.method = "POST" }

InitLifecycle ==
  /\ Init
  /\ ~config.createSpanWithNet
  /\ config.propagation

NextOutbound ==
  \/ OutgoingRequestOf(TracedOptions, {TRUE})
  \/ EmitResponse
  \/ EmitResponseEnd
  \/ EmitResponseError
  \/ EmitRequestError
  \/ AppStartRootSpan

SpecOutbound == InitLifecycle /\ [][NextOutbound]_vars

\* The life of the spans, inbound: the requests that are traced and the
\* application's calls of response.end.
TracedEvents == { e \in IncomingEvents : e[1] = "request" /\ e[2].url.pathname # "/ignored/string" }

NextInbound ==
  \/ IncomingRequestOf(TracedEvents, {TRUE})
  \/ ResponseEnd

SpecInbound == InitLifecycle /\ [][NextInbound]_vars

\* A failing propagation: requests that are not ignored, in both directions.
InitFaulty ==
  /\ config \in FaultyConfigs
  /\ ops = << >>
  /\ spans = << >>
  /\ Idle

NextFaulty ==
  \/ OutgoingRequestOf(TracedOptions, {TRUE})
  \/ IncomingRequestOf(TracedEvents, {TRUE})
  \/ AppStartRootSpan

SpecFaulty == InitFaulty /\ [][NextFaulty]_vars

\* Failing requests: traced requests on which the application does or does
\* not listen for 'error'.
NextErrors ==
  \/ OutgoingRequestOf(TracedOptions, {TRUE})
  \/ AppListen
  \/ EmitResponse
  \/ EmitRequestError
  \/ EmitResponseError

SpecErrors == InitLifecycle /\ [][NextErrors]_vars

\* Header injection: traced requests with and without an Expect header, in
\* either spelling of its name.
ExpectOptions ==
  { o \in OutgoingOptions : o.method = "POST" \/ hasExpectHeader(o) } \cup
  { ObjectOptions(hostName, Path("/outgoing/rootSpan/1", ""), "", TRUE,
                  Header("expect", "100-continue")) }

NextInject ==
  \/ OutgoingRequestOf(ExpectOptions, {TRUE})
  \/ AppStartRootSpan

SpecInject == Init /\ [][NextInject]_vars

\* The server side as the test suites drive it: the tracer samples every
\* trace (samplingRate: 1), createSpanWithNet is not set, and the requests
\* include one for each rule of ignoreIncomingPaths.
IgnoredRequests ==
  { Request(Path("/ignored/regexp", ""), "GET", Header("User-Agent", "Android"),
            FALSE, << >>),
    Request(Path("/ignored/function", ""), "GET", Header("User-Agent", "Android"),
            FALSE, << >>) }

ServerEvents == IncomingEvents \cup { <<"request", r>> : r \in IgnoredRequests }

InitSampled ==
  /\ Init
  /\ ~config.createSpanWithNet

NextServer ==
  \/ IncomingRequestOf(ServerEvents, {TRUE})
  \/ ResponseEnd

SpecServer == InitSampled /\ [][NextServer]_vars

\* the original request / get / emit, called with the caller's arguments
passThrough(dir, event, input) ==
  [op |-> [NewOp(dir, event, input) EXCEPT !.originalCalls = 1], spans |-> spans]

\* moduleExports.request: outgoingRequest while shimmer has it wrapped
httpRequest(id, options, currentRootSpan, sampled) ==
  IF "request" \in config.wrapped
  THEN outgoingRequest(id, options, currentRootSpan, sampled)
  ELSE [passThrough("out", "", options) EXCEPT !.op.steps = << "original" >>]

\* req.end(), unless the call that was to return req threw
endRequest(r) ==
  IF r.op.threw THEN r ELSE [r EXCEPT !.op.steps = Append(@, "end")]

\* A mutant of httpGet: get is wrapped like request, around the original get,
\* which ends the request it creates before it returns it.
httpGet_wrapsOriginal(id, options, currentRootSpan, sampled) ==
  LET r == httpRequest(id, options, currentRootSpan, sampled)
  IN [r EXCEPT !.op.steps = << "original", "end" >> \o Tail(@)]

\* moduleExports.get: while wrapped, getTrace calls httpModule.request and
\* ends the request; the original get reaches the original request
httpGet(id, options, currentRootSpan, sampled) ==
  IF "get" \in config.wrapped
  THEN endRequest(httpRequest(id, options, currentRootSpan, sampled))
  ELSE [passThrough("out", "", options) EXCEPT !.op.steps = << "original", "end" >>]

\* A mutant of serverEmit: requests that carry the marker header of the
\* outgoing side are passed through untraced.
serverEmit_guarded(id, event, request, currentRootSpan, sampled) ==
  IF "emit" \in config.wrapped
       /\ ~Truthy(request.headers, "x-opencensus-outgoing-request")
  THEN incomingRequest(id, event, request, currentRootSpan, sampled)
  ELSE passThrough("in", event, request)

\* Server.prototype.emit: incomingRequest while shimmer has it wrapped
serverEmit(id, event, request, currentRootSpan, sampled) ==
  IF "emit" \in config.wrapped
  THEN incomingRequest(id, event, request, currentRootSpan, sampled)
  ELSE passThrough("in", event, request)

\* A mutant of applyUnpatch: Server.prototype.emit is left wrapped.
applyUnpatch_keepsEmit(wrapped) == wrapped \ {"request", "get"}

\* applyUnpatch (): shimmer.unwrap of request, get and emit
applyUnpatch(wrapped) == wrapped \ {"request", "get", "emit"}

\* applyPatch (): shimmer.wrap of request, get and emit
applyPatch(wrapped) == wrapped \cup {"request", "get", "emit"}

\* plugin.disable() (http.spec.ts 374)
Disable ==
  /\ config.enabled
  /\ config' = [config EXCEPT !.enabled = FALSE, !.wrapped = applyUnpatch(@)]
  /\ UNCHANGED <<ops, spans, pureIn, pureOut>>

\* plugin.enable(...) with the configuration it had (http.spec.ts 116-128)
Enable ==
  /\ ~config.enabled
  /\ config' = [config EXCEPT !.enabled = TRUE, !.wrapped = applyPatch(@)]
  /\ UNCHANGED <<ops, spans, pureIn, pureOut>>

\* the application calls http.request or http.get, whatever they are now
ModuleCall ==
  /\ Len(ops) < MaxOps
  /\ \E options \in TracedOptions, ctx \in {0} \cup CurrentRoots,
        via \in {"request", "get"} :
       LET r == IF via = "get" THEN httpGet(Len(ops) + 1, options, ctx, TRUE)
                ELSE httpRequest(Len(ops) + 1, options, ctx, TRUE)
       IN /\ ops' = Append(ops, r.op)
          /\ spans' = r.spans
  /\ UNCHANGED <<config, pureIn, pureOut>>

\* the server emits an event, through whatever Server.prototype.emit is now
ServerEmit ==
  /\ Len(ops) < MaxOps
  /\ \E e \in TracedEvents, ctx \in {0} \cup CurrentRoots :
       LET r == serverEmit(Len(ops) + 1, e[1], e[2], ctx, TRUE)
       IN /\ ops' = Append(ops, r.op)
          /\ spans' = r.spans
  /\ UNCHANGED <<config, pureIn, pureOut>>

\* the response of an inbound request that is not completed yet emits 'error'
\* (a stream emits it once): incomingRequest registered no listener for it
ResponseError ==
  /\ \E o \in OpIds, error \in Errors :
       /\ ops[o].dir = "in" /\ ops[o].span # 0
       /\ ops[o].realEndCalls = 0 /\ ~ops[o].respErrored
       /\ Delivered < MaxEvents
       /\ ops' = [ops EXCEPT ![o].respErrored = TRUE, ![o].events = @ + 1]
  /\ UNCHANGED <<config, spans, pureIn, pureOut>>

\* Inbound requests whose response fails before it is completed.
NextAborted ==
  \/ IncomingRequestOf(TracedEvents, {TRUE})
  \/ ResponseEnd
  \/ ResponseError

SpecAborted == InitLifecycle /\ [][NextAborted]_vars

\* Finalization in both directions: traced requests, inbound and outbound,
\* with every terminal event and every call of response.end.
NextFinalize ==
  \/ OutgoingRequestOf(TracedOptions, {TRUE})
  \/ IncomingRequestOf(TracedEvents, {TRUE})
  \/ EmitResponse
  \/ EmitResponseEnd
  \/ EmitResponseError
  \/ EmitRequestError
  \/ ResponseEnd

SpecFinalize == InitLifecycle /\ [][NextFinalize]_vars

\* Root spans that come and go around the requests: traced requests made
\* with or without a current root span, while the application starts and
\* ends root spans of its own before and after them.
NextRoots ==
  \/ OutgoingRequestOf(TracedOptions, {TRUE})
  \/ EmitResponse
  \/ EmitResponseEnd
  \/ AppStartRootSpan
  \/ AppEndRootSpan

SpecRoots == InitLifecycle /\ [][NextRoots]_vars

\* Operations in flight together: traced requests in both directions, some
\* of them children of one root span of the application, whose terminal
\* events arrive in any order.
RootSpanEvents == { e \in TracedEvents : e[2].url.pathname = "/incoming/rootSpan/" }

NextConcurrent ==
  \/ OutgoingRequestOf(TracedOptions, {TRUE})
  \/ IncomingRequestOf(RootSpanEvents, {TRUE})
  \/ EmitResponse
  \/ EmitResponseEnd
  \/ EmitRequestError
  \/ ResponseEnd
  \/ AppStartRootSpan

SpecConcurrent == InitLifecycle /\ [][NextConcurrent]_vars

\* Routes: requests with a query string, with and without the list of matched
\* path segments a routing layer attaches (request[kMiddlewareStack]).
RouteRequests ==
  { Request(Path("/users/1", "?full=1"), "GET", Header("host", "localhost"),
            FALSE, << >>),
    Request(Path("/api/users/1", "?full=1"), "GET", Header("host", "localhost"),
            TRUE, << Segment("/", TRUE), Segment("api", FALSE),
                     Segment("/users", TRUE), Segment(":id", FALSE) >>),
    Request(Path("/", ""), "GET", Header("host", "localhost"),
            TRUE, << Segment("/", TRUE) >>),
    Request(Path("/health", ""), "GET", Header("host", "localhost"),
            TRUE, << >>) }

NextRoute ==
  \/ IncomingRequestOf({ <<"request", r>> : r \in RouteRequests }, {TRUE})
  \/ ResponseEnd

SpecRoute == InitSampled /\ [][NextRoute]_vars

\* The marker header on the inbound side: requests to a traced and to an
\* ignored path, each with and without x-opencensus-outgoing-request.
Marked(request) ==
  [request EXCEPT !.headers = ("x-opencensus-outgoing-request" :> "1") @@ @]

MarkedRequests ==
  LET plain == { r \in IncomingRequests :
                   "x-opencensus-outgoing-request" \notin DOMAIN r.headers }
  IN plain \cup { Marked(r) : r \in plain }

\* the server emits 'request' for one of them
EmitMarked ==
  /\ Len(ops) < MaxOps
  /\ \E request \in MarkedRequests, ctx \in {0} \cup CurrentRoots :
       LET r == serverEmit(Len(ops) + 1, "request", request, ctx, TRUE)
       IN /\ ops' = Append(ops, r.op)
          /\ spans' = r.spans
  /\ UNCHANGED <<config, pureIn, pureOut>>

NextLoopback ==
  \/ EmitMarked
  \/ ResponseEnd

SpecLoopback == InitSampled /\ [][NextLoopback]_vars

\* Removing and restoring the instrumentation: traced requests in both
\* directions before and after plugin.disable() and plugin.enable().
NextUnpatch ==
  \/ ModuleCall
  \/ ServerEmit
  \/ ResponseEnd
  \/ Disable
  \/ Enable

SpecUnpatch == InitSampled /\ [][NextUnpatch]_vars

\* Several requests under one root span (http.spec.ts 235-253: num = 5
\* requests inside tracer.startRootSpan, each awaited): up to MaxCalls traced
\* requests, each made while a root span of the application is current and
\* after the requests before it were answered.
MaxCalls == 4

CallUnderRoot ==
  /\ Len(ops) < MaxCalls
  /\ \A o \in OpIds : ops[o].responded
  /\ \E options \in TracedOptions, ctx \in CurrentRoots \cap AppRoots :
       LET r == outgoingRequest(Len(ops) + 1, options, ctx, TRUE)
       IN /\ ops' = Append(ops, r.op)
          /\ spans' = r.spans
  /\ UNCHANGED <<config, pureIn, pureOut>>

NextChildren ==
  \/ CallUnderRoot
  \/ EmitResponse
  \/ EmitResponseEnd
  \/ AppStartRootSpan
  \/ AppEndRootSpan

SpecChildren == InitLifecycle /\ [][NextChildren]_vars

-----------------------------------------------------------------------------
(* Properties.                                                             *)

ATTRIBUTES ==
  { "http.host", "http.method", "http.path", "http.route", "http.user_agent",
    "http.status_code", "http.error_name", "http.error_message" }

Traced(o, dir) == ops[o].dir = dir /\ ops[o].span # 0
SpanOf(o) == spans[ops[o].span]

\* C1: for a traced outbound operation, whatever terminal events its carrier
\* delivers, span.end() is called exactly once (never twice, and once as soon
\* as one terminal event was delivered) and no attribute is written twice.
C1_EndedExactlyOnce ==
  \A o \in OpIds : Traced(o, "out") =>
    /\ EndCalls(SpanOf(o)) <= 1
    /\ ops[o].events >= 1 => EndCalls(SpanOf(o)) = 1
    /\ \A key \in ATTRIBUTES : Cardinality(Writes(SpanOf(o), key)) <= 1

\* C2: once a span of an intercepted operation has been ended, no later step
\* makes any call on it: its log of calls (attributes, status, message
\* events, end) stays as it is.
C2_NothingAfterEnd ==
  [][ \A s \in SpanIds :
        (spans[s].op # 0 /\ EndCalls(spans[s]) >= 1) => spans'[s] = spans[s] ]_vars

\* C3: for a traced inbound operation the root span is finalized exactly
\* once, however often response.end is called: never twice, and once as soon
\* as response.end was called, the first call doing the finalization.
C3_FinalizedExactlyOnce ==
  \A o \in OpIds : Traced(o, "in") =>
    /\ EndCalls(SpanOf(o)) <= 1
    /\ ops[o].realEndCalls >= 1 => EndCalls(SpanOf(o)) = 1

\* C4: a traced outbound operation intercepted while the tracer has no
\* current root span has a root span; intercepted while there is a current
\* root span it has a child span of that root, with the root's traceId.
C4_RootOrChild ==
  \A o \in OpIds : Traced(o, "out") =>
    IF ops[o].ctx = 0
    THEN SpanOf(o).root /\ SpanOf(o).parent = 0
    ELSE /\ ~SpanOf(o).root
         /\ SpanOf(o).parent = ops[o].ctx
         /\ spans[ops[o].ctx].root
         /\ SpanOf(o).traceId = spans[ops[o].ctx].traceId

C4_Witness ==
  \E o1, o2 \in OpIds :
    /\ Traced(o1, "out") /\ Traced(o2, "out")
    /\ ops[o1].ctx = 0 /\ SpanOf(o1).root
    /\ ops[o2].ctx = ops[o1].span /\ SpanOf(o2).parent = ops[o1].span
    /\ SpanOf(o2).traceId = SpanOf(o1).traceId

\* C5: an outbound operation whose headers contain the marker header
\* x-opencensus-outgoing-request, whatever its value, has no span, is not
\* handed to isIgnored, and the original request is made.
C5_MarkedNeverTraced ==
  \A o \in OpIds :
    (/\ ops[o].dir = "out"
     /\ ops[o].input.hasHeaders
     /\ "x-opencensus-outgoing-request" \in DOMAIN ops[o].input.headers)
    => /\ ops[o].span = 0
       /\ ops[o].matcherCalls = 0
       /\ ops[o].originalCalls = 1

\* C6, as claimed: with createSpanWithNet set, no span of an intercepted
\* operation, inbound or outbound, is a root span.
C6_NeverRoot ==
  config.createSpanWithNet =>
    \A s \in SpanIds : spans[s].op # 0 => ~spans[s].root

\* C6, amended: with createSpanWithNet set, the span of an inbound operation
\* is never a root span: it is a child of the root span that was current at
\* interception, and an inbound operation intercepted with no current root
\* span has no span.  (Outbound operations do not read the flag.)
C6_InboundNeverRoot ==
  config.createSpanWithNet =>
    \A o \in OpIds : Traced(o, "in") =>
      /\ ~SpanOf(o).root
      /\ ops[o].ctx # 0
      /\ SpanOf(o).parent = ops[o].ctx
      /\ SpanOf(o).kind = "SERVER"

C6_Witness ==
  /\ config.createSpanWithNet
  /\ \E o \in OpIds : Traced(o, "in") /\ ~SpanOf(o).root
  /\ \E o \in OpIds : ops[o].dir = "in" /\ ops[o].event = "request"
                      /\ ops[o].matcherCalls = 1 /\ ops[o].span = 0
                      /\ ops[o].input.url.pathname # "/ignored/string"

\* what the rules of a list say about a url, read off the rules themselves
Recognized(pattern) == pattern.kind \in {"string", "regex", "function"}
Matches(url, request, pattern) ==
  \/ pattern.kind = "string" /\ pattern.value = url
  \/ pattern.kind = "regex" /\ url \in pattern.lang
  \/ pattern.kind = "function" /\ <<url, request>> \in pattern.graph

Called(fn) == pureIn.fn = fn /\ ~pureOut.pending

\* C7: isIgnored returns false for an absent or empty list; otherwise it
\* returns true at the first rule, in list order, that matches, having
\* evaluated no later rule, and false when no rule matches.
C7_FirstMatchDecides ==
  Called("isIgnored") =>
    LET url == pureIn.url
        request == pureIn.request
        rules == pureIn.list.rules
        res == pureOut.res
    IN /\ (~pureIn.list.defined \/ Len(rules) = 0) =>
            res = [threw |-> FALSE, value |-> FALSE, evaluated |-> 0]
       /\ \A i \in 1..Len(rules) :
            (/\ pureIn.list.defined
             /\ Matches(url, request, rules[i])
             /\ \A j \in 1..(i - 1) :
                  Recognized(rules[j]) /\ ~Matches(url, request, rules[j]))
            => res = [threw |-> FALSE, value |-> TRUE, evaluated |-> i]
       /\ (/\ pureIn.list.defined
           /\ \A i \in 1..Len(rules) :
                Recognized(rules[i]) /\ ~Matches(url, request, rules[i]))
            => res = [threw |-> FALSE, value |-> FALSE, evaluated |-> Len(rules)]

C7_Witness ==
  /\ Called("isIgnored")
  /\ Len(pureIn.list.rules) = 3
  /\ pureOut.res = [threw |-> FALSE, value |-> TRUE, evaluated |-> 2]
  /\ Matches(pureIn.url, pureIn.request, pureIn.list.rules[3])

\* C8, as claimed: whenever the list holds an entry of unrecognized kind,
\* evaluating the list fails with an error.
C8_UnrecognizedAlwaysFails ==
  (/\ Called("isIgnored")
   /\ \E i \in 1..Len(pureIn.list.rules) : ~Recognized(pureIn.list.rules[i]))
  => pureOut.res.threw

\* C8, amended: evaluating the list fails with an error exactly when an
\* entry of unrecognized kind is reached, that is when no rule before it
\* matches; an unrecognized entry that follows a matching rule is never
\* evaluated and the result is true.
C8_UnrecognizedFailsWhenReached ==
  Called("isIgnored") =>
    LET url == pureIn.url
        request == pureIn.request
        rules == pureIn.list.rules
        res == pureOut.res
        Reached(i) == \A j \in 1..(i - 1) :
                        Recognized(rules[j]) /\ ~Matches(url, request, rules[j])
    IN /\ res.threw <=> \E i \in 1..Len(rules) : ~Recognized(rules[i]) /\ Reached(i)
       /\ \A i \in 1..Len(rules) :
            (~Recognized(rules[i]) /\ Reached(i)) => res.evaluated = i
       /\ \A i \in 1..Len(rules) :
            (~Recognized(rules[i]) /\ ~Reached(i)) => res.evaluated < i

C8_Witness ==
  /\ Called("isIgnored")
  /\ pureOut.res.threw
  /\ pureOut.res.evaluated = 2
  /\ Len(pureIn.list.rules) = 3

\* C9: convertTraceStatus returns a status for every integer: OK from 200 to
\* 399, the table's value for the eight codes of the table, UNKNOWN below
\* 200, above 504 and for every other code from 400 to 504.
C9_StatusTable ==
  Called("convertTraceStatus") =>
    LET c == pureIn.statusCode
        r == pureOut.code
        table == {400, 401, 403, 404, 429, 501, 503, 504}
    IN /\ r \in {0, 2, 3, 4, 5, 7, 8, 12, 14, 16}
       /\ (200 <= c /\ c < 400) => r = OK
       /\ c = 400 => r = INVALID_ARGUMENT
       /\ c = 401 => r = UNAUTHENTICATED
       /\ c = 403 => r = PERMISSION_DENIED
       /\ c = 404 => r = NOT_FOUND
       /\ c = 429 => r = RESOURCE_EXHAUSTED
       /\ c = 501 => r = UNIMPLEMENTED
       /\ c = 503 => r = UNAVAILABLE
       /\ c = 504 => r = DEADLINE_EXCEEDED
       /\ (c < 200 \/ c > 504 \/ (c >= 400 /\ c \notin table)) => r = UNKNOWN

C9_Witness ==
  /\ Called("convertTraceStatus")
  /\ pureIn.statusCode = 504
  /\ pureOut.code = DEADLINE_EXCEEDED

\* C10: a traced outbound operation has exactly one span, and in the step
\* in which its response, of status code c, completes, that span is ended
\* with status convertTraceStatus(c) and with http.status_code the decimal
\* string of c.
C10_StatusOnCompletion ==
  [][ \A o \in OpIds :
        (Traced(o, "out") /\ ~ops[o].respEnded /\ ops'[o].respEnded) =>
          LET c == ops'[o].statusCode
              before == spans[ops[o].span]
              after == spans'[ops[o].span]
          IN /\ Cardinality({ s \in DOMAIN spans' : spans'[s].op = o }) = 1
             /\ EndCalls(after) = EndCalls(before) + 1
             /\ after.calls[Len(after.calls)] = end
             /\ Status(after) = convertTraceStatus(c)
             /\ Attribute(after, "http.status_code") = ToString(c) ]_vars

C10_Witness ==
  \E o1, o2 \in OpIds :
    /\ Traced(o1, "out") /\ SpanOf(o1).root
    /\ Traced(o2, "out") /\ ~SpanOf(o2).root
    /\ ops[o1].respEnded /\ ops[o1].statusCode = 200 /\ Status(SpanOf(o1)) = OK
    /\ ops[o2].respEnded /\ ops[o2].statusCode = 404
    /\ Status(SpanOf(o2)) = NOT_FOUND
    /\ Attribute(SpanOf(o2), "http.status_code") = "404"
    /\ EndCalls(SpanOf(o2)) = 1

\* the spans the tracer handed out for operation o
SpansOfOp(o) == { s \in SpanIds : spans[s].op = o }
\* some rule of the list matches the url
MatchedBy(url, list) ==
  list.defined /\ \E i \in 1..Len(list.rules) : Matches(url, "request", list.rules[i])

\* C11: with a tracer that samples every trace, an inbound 'request' event
\* whose path is matched by a rule of ignoreIncomingPaths has no span and is
\* delivered to the original emit; one whose path matches no rule has exactly
\* one span (and is delivered as well).
C11_IgnoredIncoming ==
  \A o \in OpIds :
    (ops[o].dir = "in" /\ ops[o].event = "request") =>
      /\ ops[o].originalCalls = 1
      /\ IF MatchedBy(ops[o].input.url.pathname, config.ignoreIncomingPaths)
         THEN SpansOfOp(o) = {} /\ ops[o].span = 0 /\ ~ops[o].endWrapped
         ELSE Cardinality(SpansOfOp(o)) = 1 /\ SpansOfOp(o) = {ops[o].span}

C11_Witness ==
  \E o1, o2 \in OpIds :
    /\ ops[o1].dir = "in" /\ ops[o1].input.url.pathname = "/ignored/regexp"
    /\ ops[o1].span = 0 /\ ops[o1].originalCalls = 1
    /\ ops[o2].dir = "in" /\ ops[o2].input.url.pathname = "/ignored/strings"
    /\ Cardinality(SpansOfOp(o2)) = 1

\* origin + pathname of an outbound operation, read off its options
UrlOf(options) ==
  (IF options.protocol = "" THEN "http:" ELSE options.protocol)
    \o "//" \o options.host \o options.path.pathname

IgnoredOutgoing(op) ==
  /\ op.dir = "out"
  /\ op.input.form \in {"string", "object"}
  /\ MatchedBy(UrlOf(op.input), config.ignoreOutgoingUrls)

\* C12: the interception of an outbound operation whose origin + path is
\* matched by a rule of ignoreOutgoingUrls makes the original request and
\* nothing else: it starts no span, injects no header (on the request or on
\* a clone of the options), registers no listener, and leaves every span of
\* the tracer, the current root and its children included, as it was.
C12_IgnoredOutgoingUntouched ==
  [][ \A o \in (DOMAIN ops') \ (DOMAIN ops) :
        IgnoredOutgoing(ops'[o]) =>
          /\ spans' = spans
          /\ ops'[o].span = 0
          /\ ops'[o].originalCalls = 1
          /\ ops'[o].setHeaders = {} /\ ops'[o].cloneHeaders = {}
          /\ ops'[o].clones = 0
          /\ ~ops'[o].listening ]_vars

C12_Witness ==
  \E o \in OpIds, r \in CurrentRoots :
    /\ IgnoredOutgoing(ops[o])
    /\ ops[o].matcherCalls = 1 /\ ops[o].originalCalls = 1
    /\ SpansOfOp(o) = {}
    /\ \A s \in SpanIds : spans[s].parent # r

\* the traced outbound calls made while root span r was current
CallsUnder(r) == { o \in OpIds : Traced(o, "out") /\ ops[o].ctx = r }
\* root.spans: the child spans of r (in the order of their creation, which
\* is the order of the span ids)
ChildrenOf(r) == { s \in SpanIds : spans[s].parent = r }

\* C13: for every root span, the traced outbound calls made while it is
\* current have distinct child spans of that root, created in call order
\* and with the root's traceId, and the root has exactly as many children as
\* calls were made under it (i children after the i-th call, whether the
\* calls have completed or not).
C13_ChildrenInCallOrder ==
  \A r \in SpanIds : spans[r].root =>
    /\ Cardinality(ChildrenOf(r)) = Cardinality(CallsUnder(r))
    /\ \A o \in CallsUnder(r) :
         /\ ops[o].span \in ChildrenOf(r)
         /\ ~SpanOf(o).root
         /\ SpanOf(o).traceId = spans[r].traceId
         /\ Cardinality({ s \in ChildrenOf(r) : s <= ops[o].span })
              = Cardinality({ c \in CallsUnder(r) : c <= o })
    /\ \A o1, o2 \in CallsUnder(r) : o1 < o2 => ops[o1].span < ops[o2].span

C13_Witness ==
  \E r \in AppRoots :
    /\ Cardinality(CallsUnder(r)) = 4
    /\ Cardinality(ChildrenOf(r)) = 4
    /\ \E o \in CallsUnder(r) : ops[o].respEnded

\* C14: no step of the engine (a step that intercepts an operation or
\* delivers an event to one) touches a root span the application started,
\* so the completion of its children never ends it; such a root is ended at
\* most once, by its owner's call of end(), and has no end before that.
C14_ChildNeverEndsRoot ==
  [][ \A r \in AppRoots :
        /\ ops' # ops => spans'[r] = spans[r]
        /\ EndCalls(spans'[r]) <= 1
        /\ EndCalls(spans'[r]) # EndCalls(spans[r]) =>
             /\ ops' = ops
             /\ EndCalls(spans[r]) = 0
             /\ spans'[r].calls = Append(spans[r].calls, end) ]_vars

C14_Witness ==
  \E r \in AppRoots :
    /\ Cardinality(ChildrenOf(r)) >= 2
    /\ \A s \in ChildrenOf(r) : EndCalls(spans[s]) = 1
    /\ EndCalls(spans[r]) = 1
    /\ spans[r].calls = << end >>

\* an inbound 'request' event that no rule of ignoreIncomingPaths matches
NotIgnoredIncoming(o) ==
  /\ ops[o].dir = "in" /\ ops[o].event = "request"
  /\ ~MatchedBy(ops[o].input.url.pathname, config.ignoreIncomingPaths)
\* the trace identity the request's headers carry, for a configured propagation
Carried(o) ==
  config.propagation /\ "x-dummy-trace-id" \in DOMAIN ops[o].input.headers

\* C15: with createSpanWithNet unset and a tracer that samples every trace,
\* every inbound request that is not ignored has a root span of kind SERVER
\* whose name is the request's pathname; its trace identity is the one
\* extracted from the request's headers when there is one, and otherwise
\* (nothing to extract, or no propagation configured) a fresh one, shared
\* with no other span.
C15_IncomingRootSpan ==
  \A o \in OpIds : NotIgnoredIncoming(o) =>
    /\ ops[o].span \in SpanIds
    /\ SpanOf(o).op = o
    /\ SpanOf(o).root /\ SpanOf(o).parent = 0
    /\ SpanOf(o).kind = "SERVER"
    /\ SpanOf(o).name = ops[o].input.url.pathname
    /\ IF Carried(o)
       THEN SpanOf(o).traceId = ops[o].input.headers["x-dummy-trace-id"]
       ELSE /\ \A s \in SpanIds \ {ops[o].span} : spans[s].traceId # SpanOf(o).traceId
            /\ \A p \in OpIds : \A h \in DOMAIN ops[p].input.headers :
                 ops[p].input.headers[h] # SpanOf(o).traceId

C15_Witness ==
  \E o1, o2 \in OpIds :
    /\ NotIgnoredIncoming(o1) /\ Carried(o1)
    /\ SpanOf(o1).traceId = "dummy-trace-id" /\ SpanOf(o1).root
    /\ NotIgnoredIncoming(o2) /\ ~Carried(o2)
    /\ SpanOf(o2).root /\ SpanOf(o2).traceId # "dummy-trace-id"
    /\ SpanOf(o2).name = "/incoming/rootSpan/"

\* C16: with a propagation configured, every header that inject produces
\* for the span of a traced outbound operation is a header of the request
\* that is sent, also when the caller's headers hold an Expect header.
C16_InjectedHeadersSent ==
  \A o \in OpIds :
    (Traced(o, "out") /\ config.propagation) =>
      \A i \in 1..Len(InjectedHeaders) : InjectedHeaders[i] \in sentHeaders(ops[o])

\* the headers of an outbound operation hold an Expect header
CarriesExpect(op) ==
  /\ op.input.hasHeaders
  /\ \E n \in DOMAIN op.input.headers :
       n \in {"Expect", "expect"} /\ op.input.headers[n] # ""

\* C17: for a traced outbound operation whose headers hold an Expect
\* header, injection never calls setHeader on the request (and so never
\* fails on it); every injected header is written into a clone of the
\* options, and the clone is made once however many headers are injected.
C17_ExpectInjectsIntoClone ==
  \A o \in OpIds :
    (Traced(o, "out") /\ CarriesExpect(ops[o])) =>
      /\ ops[o].setHeaderCalls = 0 /\ ops[o].setHeaders = {}
      /\ ~ops[o].threw
      /\ ops[o].clones <= 1
      /\ config.propagation =>
           /\ ops[o].clones = 1
           /\ ops[o].cloneHeaders = { InjectedHeaders[i] : i \in 1..Len(InjectedHeaders) }

\* C18: in the step in which a traced request emits 'error', the error is
\* recorded on the span, and the application observes what it would observe
\* without the engine: its own listener, when it has one, receives the
\* error, and when it has none the error is unhandled (emit throws it).
C18_ErrorOutcomeUnchanged ==
  [][ \A o \in OpIds :
        (Traced(o, "out") /\ ~ops[o].reqErrored /\ ops'[o].reqErrored) =>
          /\ HasAttribute(spans'[ops[o].span], "http.error_name")
          /\ HasAttribute(spans'[ops[o].span], "http.error_message")
          /\ Status(spans'[ops[o].span]) = UNKNOWN
          /\ IF ops[o].appListens
             THEN /\ ops'[o].appErrors = ops[o].appErrors + 1
                  /\ ops'[o].unhandled = ops[o].unhandled
             ELSE /\ ops'[o].appErrors = ops[o].appErrors
                  /\ ops'[o].unhandled = ops[o].unhandled + 1 ]_vars

\* C19: when the propagation's extract (inbound) or inject (outbound)
\* fails, the operation goes on as if there were no context: the patched
\* function does not throw, the original emit / request is called, and a
\* span is opened, for an inbound request with a fresh trace identity.
C19_PropagationFailureTolerated ==
  \A o \in OpIds :
    (\/ ops[o].dir = "in" /\ config.extractThrows
     \/ ops[o].dir = "out" /\ config.injectThrows) =>
      /\ ~ops[o].threw
      /\ ops[o].originalCalls = 1
      /\ ops[o].span # 0
      /\ ops[o].dir = "in" => SpanOf(o).traceId # "dummy-trace-id"
      /\ ops[o].dir = "out" => ops[o].listening

\* C20: whatever path an intercepted operation takes through the engine,
\* the original request function / emit is called exactly once and the
\* caller receives its result: the patched function does not throw.
C20_OriginalExactlyOnce ==
  \A o \in OpIds : ops[o].originalCalls = 1 /\ ~ops[o].threw

\* C21: while the plugin is disabled no operation starts a span: a call of
\* request, get or emit made then goes to the original exactly once, runs no
\* matcher, wraps nothing and adds no span, until the plugin is enabled again.
C21_NoSpanWhileDisabled ==
  [][~config.enabled =>
       /\ Len(spans') = Len(spans)
       /\ Len(ops') > Len(ops) =>
            LET op == ops'[Len(ops')]
            IN /\ op.span = 0 /\ op.originalCalls = 1 /\ op.matcherCalls = 0
               /\ ~op.listening /\ ~op.endWrapped]_vars

\* the plugin is disabled after it traced one operation, and an inbound
\* request that is not ignored and an outbound one went through untraced
C21_Witness ==
  /\ ~config.enabled
  /\ Len(ops) = 2
  /\ ops[1].span # 0
  /\ ops[2].span = 0 /\ ops[2].matcherCalls = 0 /\ ops[2].originalCalls = 1

\* C22: the ended root span of a traced inbound request has http.method
\* equal to the request's method (GET when it has none), http.path equal to
\* the request's pathname, http.status_code equal to the response's status
\* code as a string and, when the request carries a User-Agent header,
\* http.user_agent equal to that header's value.
C22_IncomingAttributes ==
  \A o \in OpIds : (Traced(o, "in") /\ EndCalls(SpanOf(o)) >= 1) =>
    LET request == ops[o].input
        headers == request.headers
        names == {"user-agent", "User-Agent"} \cap DOMAIN headers
    IN /\ Attribute(SpanOf(o), "http.method") =
            (IF request.method = "" THEN "GET" ELSE request.method)
       /\ Attribute(SpanOf(o), "http.path") = request.url.pathname
       /\ Attribute(SpanOf(o), "http.status_code") = ToString(ops[o].statusCode)
       /\ \A n \in names : Attribute(SpanOf(o), "http.user_agent") = headers[n]

\* Scenario E, and a request without a method answered with 404
C22_Witness ==
  \E o1, o2 \in OpIds :
    /\ Traced(o1, "in") /\ EndCalls(SpanOf(o1)) = 1
    /\ ops[o1].input.url.pathname = "/incoming/rootSpan/"
    /\ Attribute(SpanOf(o1), "http.user_agent") = "Android"
    /\ Attribute(SpanOf(o1), "http.method") = "GET"
    /\ Attribute(SpanOf(o1), "http.status_code") = "200"
    /\ Traced(o2, "in") /\ EndCalls(SpanOf(o2)) = 1
    /\ ops[o2].input.method = ""
    /\ Attribute(SpanOf(o2), "http.method") = "GET"
    /\ Attribute(SpanOf(o2), "http.path") = "/ignored/strings"
    /\ Attribute(SpanOf(o2), "http.status_code") = "404"

\* C23: when the application calls the wrapped response.end of a traced
\* inbound operation, the span is finalized before the call is forwarded, so
\* it is ended after that call even when the real response.end fails.
C23_EndedBeforeForwarding ==
  [][ \A o \in OpIds :
        (Traced(o, "in") /\ ops[o].endWrapped
           /\ ops'[o].realEndCalls = ops[o].realEndCalls + 1) =>
          EndCalls(spans'[ops[o].span]) = 1 ]_vars

\* C24: for a traced inbound operation, an error signal on the response side
\* that occurs before the response is completed finalizes the span: it has
\* the error attributes, the status UNKNOWN, and is ended.
C24_InboundErrorFinalizes ==
  \A o \in OpIds : (Traced(o, "in") /\ ops[o].respErrored) =>
    /\ HasAttribute(SpanOf(o), "http.error_name")
    /\ HasAttribute(SpanOf(o), "http.error_message")
    /\ HasStatus(SpanOf(o)) /\ Status(SpanOf(o)) = UNKNOWN
    /\ EndCalls(SpanOf(o)) = 1

\* the calls a step makes on the span of operation o
Appended(o) ==
  SubSeq(spans'[ops[o].span].calls, Len(spans[ops[o].span].calls) + 1,
         Len(spans'[ops[o].span].calls))
\* the step delivers the success signal of o: the response's 'end', or a call
\* of the wrapped response.end whose real end returned
SuccessStep(o) ==
  \/ ops[o].dir = "out" /\ ~ops[o].respEnded /\ ops'[o].respEnded
  \/ /\ ops[o].dir = "in" /\ ops[o].endWrapped
     /\ ops'[o].realEndCalls = ops[o].realEndCalls + 1
     /\ ops'[o].endThrows = ops[o].endThrows
\* the step delivers an error signal of o
ErrorStep(o) ==
  /\ ops[o].dir = "out"
  /\ \/ ~ops[o].respErrored /\ ops'[o].respErrored
     \/ ~ops[o].reqErrored /\ ops'[o].reqErrored
\* the standard attributes the success path has a value for
Available(o) ==
  {"http.method", "http.path", "http.route", "http.status_code"} \cup
  (IF ops[o].dir = "in" \/ ops[o].input.host # "" THEN {"http.host"} ELSE {}) \cup
  (IF ops[o].dir = "in" \/ (ops[o].input.hasHeaders
                               /\ ({"user-agent", "User-Agent"}
                                     \cap DOMAIN ops[o].input.headers) # {})
   THEN {"http.user_agent"} ELSE {})

\* C25: the success finalization of a traced operation writes every standard
\* attribute it has a value for, sets the status and adds exactly one message
\* event, SENT outbound and RECEIVED inbound, all before the one call of
\* end() it makes; the error path ends the span without a message event.
C25_SuccessSequence ==
  [][ \A o \in OpIds : (ops[o].span # 0) =>
        LET a == Appended(o)
            at(call) == { i \in 1..Len(a) : a[i].call = call }
        IN /\ SuccessStep(o) =>
                /\ Len(a) > 0 /\ at("end") = {Len(a)}
                /\ Cardinality(at("setStatus")) = 1
                /\ Cardinality(at("addMessageEvent")) = 1
                /\ \A i \in at("addMessageEvent") :
                     a[i].key = (IF ops[o].dir = "out" THEN "SENT" ELSE "RECEIVED")
                /\ \A key \in Available(o) :
                     \E i \in at("addAttribute") : a[i].key = key
           /\ ErrorStep(o) =>
                /\ at("end") = {Len(a)} /\ Len(a) > 0
                /\ at("addMessageEvent") = {} ]_vars

\* an outbound operation finalized by 'end' and an inbound one by response.end
C25_Witness ==
  \E o1, o2 \in OpIds :
    /\ Traced(o1, "out") /\ ops[o1].respEnded
    /\ \E i \in CallsOf(SpanOf(o1), "addMessageEvent") : SpanOf(o1).calls[i].key = "SENT"
    /\ Traced(o2, "in") /\ EndCalls(SpanOf(o2)) = 1
    /\ \E i \in CallsOf(SpanOf(o2), "addMessageEvent") : SpanOf(o2).calls[i].key = "RECEIVED"

\* C26: when an error signal (request 'error' or response 'error') is the
\* first terminal event of a traced outbound operation, the span then has
\* the error's name and message as http.error_name and http.error_message,
\* the status UNKNOWN, one call of end(), and no http.status_code attribute.
C26_ErrorFirst ==
  [][ \A o \in OpIds :
        (Traced(o, "out") /\ ops[o].events = 0 /\ ErrorStep(o)) =>
          LET after == spans'[ops[o].span]
          IN /\ \E error \in Errors :
                  /\ HasAttribute(after, "http.error_name")
                  /\ Attribute(after, "http.error_name") = error.name
                  /\ HasAttribute(after, "http.error_message")
                  /\ Attribute(after, "http.error_message") = error.message
             /\ HasStatus(after) /\ Status(after) = UNKNOWN
             /\ EndCalls(after) = 1
             /\ after.calls[Len(after.calls)] = end
             /\ ~HasAttribute(after, "http.status_code") ]_vars

\* one operation failed on the request, another on the response, each before
\* any other terminal event
C26_Witness ==
  \E o1, o2 \in OpIds :
    /\ Traced(o1, "out") /\ ops[o1].reqErrored /\ ops[o1].events = 1
    /\ Status(SpanOf(o1)) = UNKNOWN /\ EndCalls(SpanOf(o1)) = 1
    /\ Traced(o2, "out") /\ ops[o2].respErrored /\ ops[o2].events = 1
    /\ Attribute(SpanOf(o2), "http.error_message") = "socket hang up"
    /\ ~HasAttribute(SpanOf(o2), "http.status_code")

\* C27: every span the engine created is armed from the step that creates
\* it on (it is never in CREATED after interception, and so never ended
\* without having been armed), and the step from awaiting to ended happens
\* once: end() is only called on a span that was not ended before.
C27_SpanStateMachine ==
  [][ \A s \in DOMAIN spans' : (spans'[s].op # 0) =>
        LET op == ops'[spans'[s].op]
        IN /\ IF op.dir = "out" THEN op.listening
              ELSE op.endWrapped \/ op.realEndCalls > 0
           /\ (s \in DOMAIN spans /\ EndCalls(spans'[s]) # EndCalls(spans[s])) =>
                (EndCalls(spans[s]) = 0 /\ EndCalls(spans'[s]) = 1) ]_vars

\* the step delivers a terminal event of operation o: a terminal event of
\* its carrier, or a call of response.end
TerminalStep(o) ==
  \/ ops'[o].events > ops[o].events
  \/ ops'[o].realEndCalls > ops[o].realEndCalls

\* C28: the engine calls end() on a span only in a step that delivers a
\* terminal event of the span's own operation; in every other step (another
\* operation's events, a response that is received, a new interception) the
\* span's calls stay as they are, so a span whose carrier emits no terminal
\* event stays awaiting.
C28_EndedOnlyByOwnEvent ==
  [][ \A s \in SpanIds : (spans[s].op # 0 /\ ~TerminalStep(spans[s].op)) =>
        spans'[s] = spans[s] ]_vars

\* a response was received and emitted neither 'end' nor 'error': its span
\* is still open after another operation's span was ended by its own event
C28_Witness ==
  \E o1, o2 \in OpIds :
    /\ Traced(o1, "out") /\ ops[o1].responded /\ ops[o1].events = 0
    /\ SpanOf(o1).calls = << >>
    /\ o2 > o1 /\ ops[o2].span # 0 /\ EndCalls(SpanOf(o2)) = 1

\* C29: an intercepted operation has at most one span; the span is a root
\* span when the operation was intercepted without a current root span and
\* a child of the root span that was current then otherwise; and no later
\* step (a root span started or ended, a terminal event) changes the span's
\* operation, kind, parent or trace identity.
C29_ClassifiedOnce ==
  [][ /\ \A o \in DOMAIN ops' :
           Cardinality({ s \in DOMAIN spans' : spans'[s].op = o }) <= 1
      /\ \A o \in DOMAIN ops' : (ops'[o].dir = "out" /\ ops'[o].span # 0) =>
           LET span == spans'[ops'[o].span]
           IN /\ span.op = o
              /\ span.root = (ops'[o].ctx = 0)
              /\ span.parent = ops'[o].ctx
      /\ \A o \in OpIds : ops'[o].ctx = ops[o].ctx /\ ops'[o].span = ops[o].span
      /\ \A s \in SpanIds : (spans[s].op # 0) =>
           /\ spans'[s].op = spans[s].op
           /\ spans'[s].root = spans[s].root
           /\ spans'[s].parent = spans[s].parent
           /\ spans'[s].kind = spans[s].kind
           /\ spans'[s].traceId = spans[s].traceId ]_vars

\* a request made before the application's root span was started is still a
\* root span, and one made under that root is still its child after the root
\* was ended
C29_Witness ==
  \E o1, o2 \in OpIds, r \in AppRoots :
    /\ o1 < o2 /\ ops[o1].span < r /\ r < ops[o2].span
    /\ Traced(o1, "out") /\ SpanOf(o1).root
    /\ Traced(o2, "out") /\ ~SpanOf(o2).root /\ SpanOf(o2).parent = r
    /\ EndCalls(spans[r]) = 1
    /\ ops[o2].respEnded

\* C30: whatever the order in which the terminal events of the operations
\* in flight arrive, a step that delivers a terminal event of one operation
\* makes calls on the span of that operation alone: every other span, of
\* another operation or of the application, is as it was.
C30_FinalizesOwnSpanOnly ==
  [][ \A o \in OpIds : TerminalStep(o) =>
        /\ DOMAIN spans' = DOMAIN spans
        /\ \A s \in SpanIds \ {ops[o].span} : spans'[s] = spans[s]
        /\ \A p \in OpIds \ {o} : ops'[p] = ops[p] ]_vars

\* two children of one root span in flight together, the later one finalized
\* first while the earlier one and the root are untouched
C30_Witness ==
  \E o1, o2 \in OpIds, r \in AppRoots :
    /\ o1 < o2
    /\ Traced(o1, "out") /\ SpanOf(o1).parent = r
    /\ Traced(o2, "out") /\ SpanOf(o2).parent = r
    /\ ops[o1].responded /\ ops[o1].events = 0 /\ SpanOf(o1).calls = << >>
    /\ ops[o2].respEnded /\ EndCalls(SpanOf(o2)) = 1
    /\ spans[r].calls = << >>

\* the positions of a step in what was done to the request of operation o
StepsAt(o, step) == { i \in 1..Len(ops[o].steps) : ops[o].steps[i] = step }

\* C31: for a traced request made through the patched get, the request is
\* created first, then the span is started, then the headers are injected,
\* then the listeners are registered, and the request is ended last.
C31_GetEndsRequestLast ==
  \A o \in OpIds : (Traced(o, "out") /\ StepsAt(o, "end") # {}) =>
    LET n == Len(ops[o].steps)
    IN /\ StepsAt(o, "original") = {1}
       /\ StepsAt(o, "startSpan") = {2}
       /\ StepsAt(o, "inject") =
            (IF config.propagation THEN 3..(2 + Len(InjectedHeaders)) ELSE {})
       /\ StepsAt(o, "listen") = {n - 1}
       /\ StepsAt(o, "end") = {n}

\* a request made through get, traced, with both headers injected
C31_Witness ==
  \E o \in OpIds :
    /\ Traced(o, "out")
    /\ ops[o].steps = << "original", "startSpan", "inject", "inject", "listen", "end" >>
    /\ ops[o].setHeaders = { InjectedHeaders[1], InjectedHeaders[2] }

\* the texts of a list of segments, one after the other
RECURSIVE Concat(_)
Concat(texts) == IF texts = << >> THEN "" ELSE Head(texts) \o Concat(Tail(texts))
NotRoot(segment) == segment.text # "/"
\* the segments other than '/', each starting with '/'
Normalized(stack) ==
  LET kept == SelectSeq(stack, NotRoot)
  IN [i \in 1..Len(kept) |->
        IF kept[i].lead THEN kept[i].text ELSE "/" \o kept[i].text]

\* C32: the http.route attribute of an ended inbound span is the request's
\* raw path (pathname and query) when the request carries no list of matched
\* segments, and otherwise the concatenation, in order, of the segments
\* other than '/', each prefixed with '/' unless it starts with one.
C32_Route ==
  \A o \in OpIds : (Traced(o, "in") /\ EndCalls(SpanOf(o)) >= 1) =>
    LET request == ops[o].input
    IN Attribute(SpanOf(o), "http.route") =
         (IF request.hasStack THEN Concat(Normalized(request.stack))
          ELSE request.url.pathname \o request.url.search)

\* one request without segments and one with the segments '/', 'api',
\* '/users', ':id'
C32_Witness ==
  \E o1, o2 \in OpIds :
    /\ Traced(o1, "in") /\ EndCalls(SpanOf(o1)) = 1 /\ ~ops[o1].input.hasStack
    /\ Attribute(SpanOf(o1), "http.route") = "/users/1?full=1"
    /\ Traced(o2, "in") /\ EndCalls(SpanOf(o2)) = 1 /\ ops[o2].input.hasStack
    /\ Attribute(SpanOf(o2), "http.route") = "/api/users/:id"
    /\ Attribute(SpanOf(o2), "http.path") = "/api/users/1"

\* the request without the marker header of the outgoing side
Unmarked(request) ==
  [request EXCEPT !.headers =
     [n \in DOMAIN @ \ {"x-opencensus-outgoing-request"} |-> @[n]]]

\* C33: whether an inbound request is traced depends on ignoreIncomingPaths
\* alone; a request that carries x-opencensus-outgoing-request is handled
\* like the same request without it: the matcher runs, the original emit is
\* called, the span has the same kind, name and classification, and the same
\* finalization for the same response.
C33_NoInboundLoopbackGuard ==
  /\ \A o \in OpIds : (ops[o].dir = "in" /\ ops[o].event = "request") =>
       /\ ops[o].matcherCalls = 1 /\ ops[o].originalCalls = 1
       /\ (ops[o].span # 0) =
            ~MatchedBy(ops[o].input.url.pathname, config.ignoreIncomingPaths)
  /\ \A o1, o2 \in OpIds :
       (/\ ops[o1].dir = "in" /\ ops[o2].dir = "in"
        /\ Unmarked(ops[o1].input) = Unmarked(ops[o2].input)) =>
         /\ (ops[o1].span # 0) = (ops[o2].span # 0)
         /\ (ops[o1].span # 0) =>
              /\ SpanOf(o1).kind = SpanOf(o2).kind
              /\ SpanOf(o1).name = SpanOf(o2).name
              /\ SpanOf(o1).root = SpanOf(o2).root
              /\ (/\ ops[o1].realEndCalls = ops[o2].realEndCalls
                  /\ ops[o1].endThrows = ops[o2].endThrows
                  /\ ops[o1].statusCode = ops[o2].statusCode) =>
                   SpanOf(o1).calls = SpanOf(o2).calls

\* the same request with and without the marker, both traced and finalized
C33_Witness ==
  \E o1, o2 \in OpIds :
    /\ ops[o2].input = Marked(ops[o1].input) /\ ops[o1].input # ops[o2].input
    /\ Traced(o1, "in") /\ Traced(o2, "in")
    /\ EndCalls(SpanOf(o1)) = 1 /\ EndCalls(SpanOf(o2)) = 1
    /\ SpanOf(o1).calls = SpanOf(o2).calls

\* C34: every span of an outbound operation, root or child, has the kind
\* CLIENT and the name "http-" followed by the lower-cased method: the
\* method of the options, and get when the options name none or are a url
\* string.
C34_ClientSpanName ==
  \A o \in OpIds : Traced(o, "out") =>
    LET options == ops[o].input
    IN /\ SpanOf(o).kind = "CLIENT"
       /\ SpanOf(o).name =
            (IF options.form = "string" \/ options.method = "" THEN "http-get"
             ELSE IF options.method = "POST" THEN "http-post"
             ELSE "http-" \o options.method)

\* a root span for a POST and a child span for a url string
C34_Witness ==
  \E o1, o2 \in OpIds :
    /\ Traced(o1, "out") /\ SpanOf(o1).root
    /\ ops[o1].input.method = "POST" /\ SpanOf(o1).name = "http-post"
    /\ Traced(o2, "out") /\ ~SpanOf(o2).root
    /\ ops[o2].input.form = "string" /\ SpanOf(o2).name = "http-get"
    /\ SpanOf(o2).kind = "CLIENT"

\* the tracer was asked for a span for operation o and handed out none
NoSpanHanded(o) ==
  /\ ops[o].span = 0
  /\ \/ /\ ops[o].dir = "out"
        /\ ops[o].input.form \in {"string", "object"}
        /\ ~isOwnRequest(ops[o].input)
        /\ ~IgnoredOutgoing(ops[o])
     \/ NotIgnoredIncoming(o)

\* C35: an operation for which the tracer hands out no span proceeds
\* untraced: the original is called exactly once and nothing throws;
\* outbound, no header is injected (on the request or on a clone) and no
\* listener is registered; inbound, response.end is not wrapped.
C35_NoSpanNoTrace ==
  \A o \in OpIds : NoSpanHanded(o) =>
    /\ ops[o].originalCalls = 1 /\ ~ops[o].threw
    /\ SpansOfOp(o) = {}
    /\ ops[o].setHeaderCalls = 0 /\ ops[o].setHeaders = {}
    /\ ops[o].clones = 0 /\ ops[o].cloneHeaders = {}
    /\ ~ops[o].listening
    /\ ~ops[o].endWrapped

\* an outbound and an inbound operation of traces the tracer did not sample
C35_Witness ==
  \E o1, o2 \in OpIds :
    /\ NoSpanHanded(o1) /\ ops[o1].dir = "out" /\ config.propagation
    /\ NoSpanHanded(o2) /\ ops[o2].dir = "in"
    /\ spans = << >>

\* C36: every call of response.end on the response of a traced inbound
\* operation calls the real end exactly once; the first call, which enters
\* the wrapper, leaves response.end restored to the original whether the
\* real end returns or throws, so a later call does not enter the wrapper
\* and makes no call on the span.
C36_WrapperEnteredOnce ==
  [][ \A o \in OpIds :
        (Traced(o, "in") /\ ops'[o].realEndCalls # ops[o].realEndCalls) =>
          /\ ops'[o].realEndCalls = ops[o].realEndCalls + 1
          /\ ~ops'[o].endWrapped
          /\ ops[o].endWrapped = (ops[o].realEndCalls = 0)
          /\ ~ops[o].endWrapped => spans' = spans ]_vars

\* response.end was called twice on one response: the real end ran twice
\* and the span was finalized once
C36_Witness ==
  \E o \in OpIds :
    /\ Traced(o, "in")
    /\ ops[o].realEndCalls = 2 /\ ops[o].endThrows = 0
    /\ ~ops[o].endWrapped
    /\ EndCalls(SpanOf(o)) = 1

\* C37: the patched emit handles only 'request' events: an event of any
\* other name is forwarded to the original emit, once, and the step starts
\* no span, evaluates no ignore rule and wraps no response.end.
C37_OnlyRequestEvents ==
  [][ (Len(ops') = Len(ops) + 1 /\ ops'[Len(ops')].dir = "in"
         /\ ops'[Len(ops')].event # "request") =>
        LET op == ops'[Len(ops')]
        IN /\ op.originalCalls = 1 /\ ~op.threw
           /\ op.matcherCalls = 0
           /\ op.span = 0 /\ ~op.endWrapped
           /\ spans' = spans ]_vars

\* a 'connection' event went through after a request was traced
C37_Witness ==
  \E o1, o2 \in OpIds :
    /\ o1 < o2
    /\ Traced(o1, "in")
    /\ ops[o2].dir = "in" /\ ops[o2].event = "connection"
    /\ ops[o2].originalCalls = 1 /\ ops[o2].matcherCalls = 0
    /\ Len(spans) = 1

====
